---- MODULE Spec2Model ----
(***************************************************************************)
(* Model of the urlbuilder package (eaglebush/urlbuilder).                 *)
(*                                                                         *)
(* The repository holds two revisions of the builder:                      *)
(*   rev = 1   src/url-builder.go      (Build writes its defaults into the *)
(*             receiver, Clone copies the struct only, getHostParts splits *)
(*             a trailing id off the path)                                 *)
(*   rev = 2   src/unnamed/part_000    (Build works on a copy, Clone       *)
(*             copies the slices, trailing-slash policy, BuildSafe)        *)
(* The configuration functions Sch .. Frag are the same text in both.      *)
(*                                                                         *)
(* Go strings are TLA+ strings; a Go slice is a header [arr, len, cap]     *)
(* over a backing array kept in pmem (strings) or qmem (query structs),    *)
(* so that two headers over one array alias as they do in Go.              *)
(***************************************************************************)
EXTENDS Integers, Sequences, FiniteSets, TLC

VARIABLES rev, ubs, pmem, qmem, out, last, conf, nops, calls, qs

vars == <<rev, ubs, pmem, qmem, out, last, conf, nops, calls, qs>>

-----------------------------------------------------------------------------
(* Bounds                                                                  *)

\* steps of a run of Spec (every operation), SpecQuery, SpecClone, SpecHost
MaxOps == 2
MaxQueryOps == 5
MaxCloneOps == 3
MaxHostOps == 3
MaxErrOps == 6
MaxPathOps == 4
MaxSegOps == 4
MaxConcOps == 3
MaxQSOps == 4
MaxNvOps == 4
MaxPartOps == 2
MaxBareOps == 3
MaxThreads == 2
\* builders alive (New's and the clones), parts handed to one Clone call
MaxBuilders == 3
MaxCloneParts == 1

-----------------------------------------------------------------------------
(* package strings / strconv / fmt / net/url, as the code uses them        *)

Ch(s, i) == SubSeq(s, i, i)

HasPrefix(s, p) == Len(s) >= Len(p) /\ SubSeq(s, 1, Len(p)) = p

HasSuffix(s, p) == Len(s) >= Len(p) /\ SubSeq(s, Len(s) - Len(p) + 1, Len(s)) = p

CutPrefix(s, p) == IF HasPrefix(s, p) THEN SubSeq(s, Len(p) + 1, Len(s)) ELSE s

CutSuffix(s, p) == IF HasSuffix(s, p) THEN SubSeq(s, 1, Len(s) - Len(p)) ELSE s

\* strings.Index / strings.LastIndex for a one-byte separator: 0-based, -1 when absent
Index(s, c) ==
    IF \E i \in 1..Len(s) : Ch(s, i) = c
    THEN (CHOOSE i \in 1..Len(s) : Ch(s, i) = c /\ \A j \in 1..(i - 1) : Ch(s, j) # c) - 1
    ELSE -1

LastIndex(s, c) ==
    IF \E i \in 1..Len(s) : Ch(s, i) = c
    THEN (CHOOSE i \in 1..Len(s) : Ch(s, i) = c /\ \A j \in (i + 1)..Len(s) : Ch(s, j) # c) - 1
    ELSE -1

\* s[:i] and s[i:] with Go's 0-based index
Before(s, i) == SubSeq(s, 1, i)
From(s, i) == SubSeq(s, i + 1, Len(s))

RECURSIVE ReplaceAll(_, _, _)
ReplaceAll(s, old, new) ==
    IF s = "" THEN ""
    ELSE (IF Ch(s, 1) = old THEN new ELSE Ch(s, 1)) \o ReplaceAll(Tail(s), old, new)

Contains(s, sub) ==
    \E i \in 1..(Len(s) - Len(sub) + 1) : SubSeq(s, i, i + Len(sub) - 1) = sub

\* number of occurrences of sub in s (overlapping occurrences counted)
Count(s, sub) ==
    Cardinality({i \in 1..(Len(s) - Len(sub) + 1) : SubSeq(s, i, i + Len(sub) - 1) = sub})

UpperLetters == "ABCDEFGHIJKLMNOPQRSTUVWXYZ"
LowerLetters == "abcdefghijklmnopqrstuvwxyz"
Digits == "0123456789"

IsIn(c, set) == \E i \in 1..Len(set) : Ch(set, i) = c

ToLowerCh(c) ==
    IF IsIn(c, UpperLetters) THEN Ch(LowerLetters, Index(UpperLetters, c) + 1) ELSE c

RECURSIVE ToLower(_)
ToLower(s) == IF s = "" THEN "" ELSE ToLowerCh(Ch(s, 1)) \o ToLower(Tail(s))

\* strconv.Itoa
RECURSIVE ItoaNat(_)
ItoaNat(n) ==
    IF n < 10 THEN Ch(Digits, n + 1)
    ELSE ItoaNat(n \div 10) \o Ch(Digits, (n % 10) + 1)

Itoa(n) == IF n < 0 THEN "-" \o ItoaNat(-n) ELSE ItoaNat(n)

AllDigits(s) == \A i \in 1..Len(s) : IsIn(Ch(s, i), Digits)

RECURSIVE DigitsValue(_, _)
DigitsValue(s, acc) ==
    IF s = "" THEN acc
    ELSE DigitsValue(Tail(s), acc * 10 + Index(Digits, Ch(s, 1)))

\* strconv.Atoi with the error dropped (port, _ = strconv.Atoi(..)): 0 on a
\* syntax error; an optional sign is accepted.
Atoi(s) ==
    LET body == IF s # "" /\ Ch(s, 1) \in {"+", "-"} THEN Tail(s) ELSE s
    IN  IF body = "" \/ ~AllDigits(body) THEN 0
        ELSE IF Ch(s, 1) = "-" THEN -DigitsValue(body, 0) ELSE DigitsValue(body, 0)

\* fmt.Sprint of the values the options are called with: a string prints as
\* itself, an int in decimal, a bool as true/false.
StrV(s) == [t |-> "str", s |-> s, i |-> 0, b |-> FALSE]
IntV(i) == [t |-> "int", s |-> "", i |-> i, b |-> FALSE]
BoolV(b) == [t |-> "bool", s |-> "", i |-> 0, b |-> b]

Sprint(v) ==
    CASE v.t = "str" -> v.s
      [] v.t = "int" -> Itoa(v.i)
      [] v.t = "bool" -> IF v.b THEN "true" ELSE "false"

\* url.QueryEscape: unreserved bytes stay, space becomes "+", the rest %XX
Unreserved == UpperLetters \o LowerLetters \o Digits \o "-_.~"

EscapeTable ==
    [c \in {"!", "\"", "#", "$", "%", "&", "'", "(", ")", "*", "+", ",", "/",
            ":", ";", "<", "=", ">", "?", "@", "[", "]"} |->
        CASE c = "!" -> "%21" [] c = "\"" -> "%22" [] c = "#" -> "%23"
          [] c = "$" -> "%24" [] c = "%" -> "%25" [] c = "&" -> "%26"
          [] c = "'" -> "%27" [] c = "(" -> "%28" [] c = ")" -> "%29"
          [] c = "*" -> "%2A" [] c = "+" -> "%2B" [] c = "," -> "%2C"
          [] c = "/" -> "%2F" [] c = ":" -> "%3A" [] c = ";" -> "%3B"
          [] c = "<" -> "%3C" [] c = "=" -> "%3D" [] c = ">" -> "%3E"
          [] c = "?" -> "%3F" [] c = "@" -> "%40" [] c = "[" -> "%5B"
          [] c = "]" -> "%5D"]

QueryEscapeCh(c) ==
    IF IsIn(c, Unreserved) THEN c
    ELSE IF c = " " THEN "+"
    ELSE EscapeTable[c]

RECURSIVE QueryEscape(_)
QueryEscape(s) == IF s = "" THEN "" ELSE QueryEscapeCh(Ch(s, 1)) \o QueryEscape(Tail(s))

-----------------------------------------------------------------------------
(* url.Parse and URL.Port, for inputs without userinfo ("@"), IPv6       *)
(* brackets, percent escapes and control bytes.  The result carries the    *)
(* three fields getHostParts reads.                                        *)

SchemeTailChars == UpperLetters \o LowerLetters \o Digits \o "+-."

ParseError == [ok |-> FALSE, Scheme |-> "", Host |-> "", Path |-> ""]

\* strings.Cut for a one-byte separator: [before, after, found]
Cut(s, c) ==
    IF Index(s, c) = -1 THEN [before |-> s, after |-> "", found |-> FALSE]
    ELSE [before |-> Before(s, Index(s, c)), after |-> From(s, Index(s, c) + 1), found |-> TRUE]

\* the first byte of u that cannot stand in a scheme, as a 1-based position; 0 if none
schemeStop(u) ==
    IF \A i \in 1..Len(u) : IsIn(Ch(u, i), SchemeTailChars) THEN 0
    ELSE CHOOSE i \in 1..Len(u) :
            /\ ~IsIn(Ch(u, i), SchemeTailChars)
            /\ \A j \in 1..(i - 1) : IsIn(Ch(u, j), SchemeTailChars)

\* getScheme: [ok, scheme, rest]
getSchemeAt(u, p) ==
    IF u = "" THEN [ok |-> TRUE, scheme |-> "", rest |-> u]
    ELSE IF IsIn(Ch(u, 1), Digits \o "+-.") THEN [ok |-> TRUE, scheme |-> "", rest |-> u]
    ELSE IF p = 0 THEN [ok |-> TRUE, scheme |-> "", rest |-> u]
    ELSE IF Ch(u, p) = ":"
         THEN IF p = 1 THEN [ok |-> FALSE, scheme |-> "", rest |-> ""]
              ELSE [ok |-> TRUE, scheme |-> Before(u, p - 1), rest |-> From(u, p)]
    ELSE [ok |-> TRUE, scheme |-> "", rest |-> u]

getScheme(u) == getSchemeAt(u, schemeStop(u))

\* validOptionalPort: "" or ":" followed by digits
validOptionalPort(port) ==
    port = "" \/ (Ch(port, 1) = ":" /\ AllDigits(Tail(port)))

\* rest without its query: a lone trailing "?" is dropped, else cut at the first "?"
stripQuery(rest) ==
    IF HasSuffix(rest, "?") /\ Count(rest, "?") = 1 THEN Before(rest, Len(rest) - 1)
    ELSE Cut(rest, "?").before

\* parseAuthority and parseHost on the text between "//" and the next "/"
parseAuthority(scheme, authority, rest) ==
    IF LastIndex(authority, ":") # -1
       /\ ~validOptionalPort(From(authority, LastIndex(authority, ":")))
    THEN ParseError
    ELSE [ok |-> TRUE, Scheme |-> scheme, Host |-> authority, Path |-> rest]

\* the "//" branch of parse: authority up to the next "/", the path from it
splitAuthority(scheme, rest) ==
    IF Index(rest, "/") = -1 THEN parseAuthority(scheme, rest, "")
    ELSE parseAuthority(scheme, Before(rest, Index(rest, "/")), From(rest, Index(rest, "/")))

\* parse after the scheme and the query are taken off
parseRest(scheme, rest) ==
    IF ~HasPrefix(rest, "/") /\ scheme # ""
    THEN [ok |-> TRUE, Scheme |-> scheme, Host |-> "", Path |-> ""]
    ELSE IF ~HasPrefix(rest, "/") /\ Contains(Cut(rest, "/").before, ":") THEN ParseError
    ELSE IF (scheme # "" \/ ~HasPrefix(rest, "///")) /\ HasPrefix(rest, "//")
         THEN splitAuthority(scheme, From(rest, 2))
    ELSE [ok |-> TRUE, Scheme |-> scheme, Host |-> "", Path |-> rest]

parseScheme(gs) ==
    IF ~gs.ok THEN ParseError ELSE parseRest(ToLower(gs.scheme), stripQuery(gs.rest))

urlParse(rawURL) == parseScheme(getScheme(Cut(rawURL, "#").before))

\* URL.Port: the digits after the last colon of Host
urlPort(host) ==
    LET colon == LastIndex(host, ":")
    IN  IF colon # -1 /\ validOptionalPort(From(host, colon))
        THEN From(host, colon + 1) ELSE ""

-----------------------------------------------------------------------------
(* Go slices                                                                *)

NilSlice == [arr |-> 0, len |-> 0, cap |-> 0]

ZeroQuery == [name |-> "", value |-> ""]

\* the elements a slice header sees in its memory
Elems(mem, sl) == IF sl.arr = 0 THEN <<>> ELSE SubSeq(mem[sl.arr], 1, sl.len)

\* make([]T, 0, n): a fresh zeroed array of n elements; [sl, mem]
Make(mem, n, zero) ==
    [sl |-> [arr |-> Len(mem) + 1, len |-> 0, cap |-> n],
     mem |-> Append(mem, [i \in 1..n |-> zero])]

\* the capacity append grows to from oldCap when it needs room for `need`
\* elements (runtime.growslice below 256 elements; the size classes of 16-
\* and 32-byte elements are exact in this range)
GrowCap(oldCap, need) == IF need > 2 * oldCap THEN need ELSE 2 * oldCap

\* append(sl, x): writes in place while len < cap, otherwise moves the
\* elements to a new array; [sl, mem]
GoAppend(mem, sl, x, zero) ==
    IF sl.len < sl.cap
    THEN [sl |-> [sl EXCEPT !.len = sl.len + 1],
          mem |-> [mem EXCEPT ![sl.arr][sl.len + 1] = x]]
    ELSE LET newCap == GrowCap(sl.cap, sl.len + 1)
             old == Elems(mem, sl)
         IN  [sl |-> [arr |-> Len(mem) + 1, len |-> sl.len + 1, cap |-> newCap],
              mem |-> Append(mem, [i \in 1..newCap |->
                                      IF i <= sl.len THEN old[i]
                                      ELSE IF i = sl.len + 1 THEN x ELSE zero])]

\* append([]T(nil), src...): nil when src is empty, else a fresh exact copy
CopySlice(mem, sl) ==
    IF sl.len = 0 THEN [sl |-> NilSlice, mem |-> mem]
    ELSE [sl |-> [arr |-> Len(mem) + 1, len |-> sl.len, cap |-> sl.len],
          mem |-> Append(mem, Elems(mem, sl))]

-----------------------------------------------------------------------------
(* The UrlBuilder struct and the QueryMode constants                       *)

QModeLast == 0
QModeArray == 1
QModeError == 2

nil == "<nil>"
ErrDuplicate == "duplicate query name found"

\* the zero UrlBuilder; endPathWithSlash exists in revision 2 only and is
\* never read or written by revision 1
ZeroUrlBuilder ==
    [path |-> NilSlice, scheme |-> "", host |-> "", user |-> "", password |-> "",
     id |-> "", fragment |-> "", port |-> 0, query |-> NilSlice,
     qmode |-> QModeLast, err |-> nil, endPathWithSlash |-> FALSE]

\* A configuration function works on st = [ub, pmem, qmem]: the builder it is
\* applied to and the two memories its appends write to.

\* New with no parts: the two make calls
New ==
    LET q == Make(<<>>, 3, ZeroQuery)
        p == Make(<<>>, 7, "")
    IN  [ub |-> [ZeroUrlBuilder EXCEPT !.query = q.sl, !.path = p.sl],
         pmem |-> p.mem, qmem |-> q.mem]

\* getHostParts reads its input in four stages; each is an operator over
\* the locals the stage before it left.

\* host, scheme and port out of a successful parse r
parsedHost(host, r) ==
    IF r.Host = "" THEN host
    ELSE IF Index(r.Host, ":") # -1 THEN Before(r.Host, Index(r.Host, ":"))
    ELSE r.Host

parsedScheme(r) == IF r.Scheme = "http" \/ r.Scheme = "https" THEN r.Scheme ELSE ""

standardPort(scheme, port) ==
    IF port # 0 /\ ((scheme = "http" /\ port = 80) \/ (scheme = "https" /\ port = 443))
    THEN 0 ELSE port

\* the path of r, "" when it is absent, there is no host or it is only "/"
parsedPath(r) == IF r.Path # "" /\ r.Host # "" /\ r.Path # "/" THEN r.Path ELSE ""

\* revision 1 only: the last element of a path without a trailing "/" is
\* taken off as the id; [path, id]
splitKey(path) ==
    IF ~HasSuffix(path, "/") /\ LastIndex(path, "/") # -1
    THEN [path |-> Before(path, LastIndex(path, "/")),
          id |-> From(path, LastIndex(path, "/") + 1)]
    ELSE [path |-> path, id |-> ""]

keepPath(path) == [path |-> path, id |-> ""]

\* a stripping that cuts the host at the ":" and leaves the port as it was
stripPort_hostOnly(host, port) ==
    [host |-> CutSuffix(IF Index(host, ":") # -1 THEN Before(host, Index(host, ":")) ELSE host, "/"),
     port |-> port]

\* "Additional stripping of port" and the trailing "/" of the host
stripPort(host, port) ==
    IF Index(host, ":") # -1
    THEN [host |-> CutSuffix(Before(host, Index(host, ":")), "/"),
          port |-> Atoi(From(host, Index(host, ":") + 1))]
    ELSE [host |-> CutSuffix(host, "/"), port |-> port]

joinLocals(hp, scheme, pk) ==
    [host |-> hp.host, port |-> hp.port, scheme |-> scheme, path |-> pk.path, id |-> pk.id]

localsOf(host, r, splitId) ==
    IF r.ok
    THEN joinLocals(stripPort(parsedHost(host, r),
                              standardPort(parsedScheme(r), Atoi(urlPort(r.Host)))),
                    parsedScheme(r),
                    IF splitId THEN splitKey(parsedPath(r)) ELSE keepPath(parsedPath(r)))
    ELSE joinLocals(stripPort(host, 0), "", keepPath(""))

parseLocals(host, splitId) == localsOf(host, urlParse(host), splitId)

\* the locals host, scheme, port, path (and id) when the assignments to ub start
HostLocals(h, splitId) == parseLocals(ReplaceAll(h, "\"", "/"), splitId)

\* if path != "" { ub.path = append(ub.path, path) }; [sl, mem]
appendHostPath(path, st) ==
    IF path # "" THEN GoAppend(st.pmem, st.ub.path, path, "")
    ELSE [sl |-> st.ub.path, mem |-> st.pmem]

\* the assignments that end getHostParts in src/url-builder.go, ub.id = id last
assign_r1(l, ap, st) ==
    [st EXCEPT !.ub.host = l.host,
               !.ub.port = IF l.port # 0 THEN l.port ELSE @,
               !.ub.scheme = IF l.scheme # "" THEN l.scheme ELSE @,
               !.ub.path = ap.sl,
               !.ub.id = l.id,
               !.pmem = ap.mem]

\* the same in src/unnamed/part_000: id is not touched
assign_r2(l, ap, st) ==
    [st EXCEPT !.ub.host = l.host,
               !.ub.port = IF l.port # 0 THEN l.port ELSE @,
               !.ub.scheme = IF l.scheme # "" THEN l.scheme ELSE @,
               !.ub.path = ap.sl,
               !.pmem = ap.mem]

getHostParts_r1(host, st) ==
    assign_r1(HostLocals(host, TRUE), appendHostPath(HostLocals(host, TRUE).path, st), st)

getHostParts_r2(host, st) ==
    assign_r2(HostLocals(host, FALSE), appendHostPath(HostLocals(host, FALSE).path, st), st)

getHostParts(host, st) ==
    IF rev = 1 THEN getHostParts_r1(host, st) ELSE getHostParts_r2(host, st)

Sch(sch, st) == IF sch = "" THEN st ELSE [st EXCEPT !.ub.scheme = sch]

Host(h, st) == IF h = "" THEN st ELSE getHostParts(h, st)

Usr(u, st) == IF u = "" THEN st ELSE [st EXCEPT !.ub.user = u]

Pwd(p, st) == IF p = "" THEN st ELSE [st EXCEPT !.ub.password = p]

\* a UsrPwd that stores whichever of the two is not empty
UsrPwd_either(usr, pwd, st) ==
    [st EXCEPT !.ub.user = IF usr # "" THEN usr ELSE @,
               !.ub.password = IF pwd # "" THEN pwd ELSE @]

UsrPwd(usr, pwd, st) ==
    IF usr = "" \/ pwd = "" THEN st
    ELSE [st EXCEPT !.ub.user = usr, !.ub.password = pwd]

Path(path, st) ==
    IF path = "" THEN st
    ELSE LET ap == GoAppend(st.pmem, st.ub.path, path, "")
         IN  [st EXCEPT !.ub.path = ap.sl, !.pmem = ap.mem]

\* id == "" compares the interface value with the string "": only the empty
\* string is skipped
ID(id, st) ==
    IF id = StrV("") THEN st ELSE [st EXCEPT !.ub.id = Sprint(id)]

Port(port, st) == IF port = 0 THEN st ELSE [st EXCEPT !.ub.port = port]

Mode(mode, st) == [st EXCEPT !.ub.qmode = mode]

\* a Query whose loop returns instead of continuing: in QModeArray a pair
\* already stored with the same name and value is not appended again
Query_dedup(name, value, st) ==
    IF name = "" THEN st
    ELSE IF st.ub.qmode = QModeArray
            /\ \E i \in 1..st.ub.query.len :
                   Elems(st.qmem, st.ub.query)[i] = [name |-> name, value |-> Sprint(value)]
         THEN st
    ELSE [st EXCEPT !.ub.query = GoAppend(st.qmem, st.ub.query,
                                          [name |-> name, value |-> Sprint(value)], ZeroQuery).sl,
                    !.qmem = GoAppend(st.qmem, st.ub.query,
                                      [name |-> name, value |-> Sprint(value)], ZeroQuery).mem]

\* a Query that in QModeError does not store a name already stored
Query_errorSkips(name, value, st) ==
    IF name = "" THEN st
    ELSE IF st.ub.qmode = QModeError
            /\ \E i \in 1..st.ub.query.len : Elems(st.qmem, st.ub.query)[i].name = name
         THEN st
    ELSE [st EXCEPT !.ub.query = GoAppend(st.qmem, st.ub.query,
                                          [name |-> name, value |-> Sprint(value)], ZeroQuery).sl,
                    !.qmem = GoAppend(st.qmem, st.ub.query,
                                      [name |-> name, value |-> Sprint(value)], ZeroQuery).mem]

\* the loop over ub.query in QModeArray only continues: it changes nothing
Query(name, value, st) ==
    IF name = "" THEN st
    ELSE LET v == Sprint(value)
             ap == GoAppend(st.qmem, st.ub.query, [name |-> name, value |-> v], ZeroQuery)
         IN  [st EXCEPT !.ub.query = ap.sl, !.qmem = ap.mem]

Frag(f, st) == IF f = "" THEN st ELSE [st EXCEPT !.ub.fragment = f]

EndPathWithSlash(indeed, st) == [st EXCEPT !.ub.endPathWithSlash = indeed]

\* a UrlPart value: the closure one of the functions above returns, as the
\* function's name and its arguments (a, b strings, n a number, v an `any`,
\* e a bool; the fields a function does not take are left zero)
Part(op, a, b, n, v, e) == [op |-> op, a |-> a, b |-> b, n |-> n, v |-> v, e |-> e]

Apply(part, st) ==
    CASE part.op = "Sch" -> Sch(part.a, st)
      [] part.op = "Host" -> Host(part.a, st)
      [] part.op = "Usr" -> Usr(part.a, st)
      [] part.op = "Pwd" -> Pwd(part.a, st)
      [] part.op = "UsrPwd" -> UsrPwd(part.a, part.b, st)
      [] part.op = "Path" -> Path(part.a, st)
      [] part.op = "ID" -> ID(part.v, st)
      [] part.op = "Port" -> Port(part.n, st)
      [] part.op = "Mode" -> Mode(part.n, st)
      [] part.op = "Query" -> Query(part.a, part.v, st)
      [] part.op = "Frag" -> Frag(part.a, st)
      [] part.op = "EndPathWithSlash" -> EndPathWithSlash(part.e, st)

\* for _, p := range part { p(&ub) }
RECURSIVE ApplyParts(_, _)
ApplyParts(parts, st) ==
    IF parts = <<>> THEN st ELSE ApplyParts(Tail(parts), Apply(Head(parts), st))

\* Clone of src/url-builder.go: cloneUb := *ub copies the slice headers, the
\* clone and the source keep one backing array
Clone_r1(parts, st) == ApplyParts(parts, st)

\* Clone of src/unnamed/part_000: non-nil slices are copied first
Clone_r2(parts, st) ==
    LET cp == IF st.ub.path.arr # 0 THEN CopySlice(st.pmem, st.ub.path)
              ELSE [sl |-> st.ub.path, mem |-> st.pmem]
        cq == IF st.ub.query.arr # 0 THEN CopySlice(st.qmem, st.ub.query)
              ELSE [sl |-> st.ub.query, mem |-> st.qmem]
    IN  ApplyParts(parts, [ub |-> [st.ub EXCEPT !.path = cp.sl, !.query = cq.sl],
                           pmem |-> cp.mem, qmem |-> cq.mem])

\* Clone(ub, part...): st.ub is the source; the result's ub is the clone
Clone(parts, st) == IF rev = 1 THEN Clone_r1(parts, st) ELSE Clone_r2(parts, st)

-----------------------------------------------------------------------------
(* Build                                                                   *)

\* a pass that leaves the double quotes of the segment in place
cleanSegment_quoted(segment) ==
    CutSuffix(CutPrefix(segment, "/"), "/")

\* one pass of the loop over the path segments
cleanSegment(segment) ==
    CutSuffix(CutPrefix(ReplaceAll(segment, "\"", "/"), "/"), "/")

RECURSIVE writePath(_)
writePath(paths) ==
    IF paths = <<>> THEN ""
    ELSE (IF Head(paths) = "" THEN "" ELSE "/" \o cleanSegment(Head(paths)))
         \o writePath(Tail(paths))

\* qmap after the first loop: the keys and, per key, the value written last
qmapKeys(queries) == {queries[i].name : i \in 1..Len(queries)}

\* a map that keeps the value written first
qmapValue_first(queries, k) ==
    queries[CHOOSE i \in 1..Len(queries) :
                queries[i].name = k /\ \A j \in 1..(i - 1) : queries[j].name # k].value

qmapValue(queries, k) ==
    queries[CHOOSE i \in 1..Len(queries) :
                queries[i].name = k /\ \A j \in (i + 1)..Len(queries) : queries[j].name # k].value

\* a detection that only compares a pair with the one appended just before it
duplicateFound_adjacent(queries) ==
    \E i \in 1..(Len(queries) - 1) : queries[i].name = queries[i + 1].name

\* found && qmode == QModeError at some element of the first loop
duplicateFound(queries) ==
    \E i, j \in 1..Len(queries) : i < j /\ queries[i].name = queries[j].name

\* for k, v := range qmap visits the keys in an order the language leaves
\* open: every sequence that holds each key once
mapOrders(keys) ==
    {o \in [1..Cardinality(keys) -> keys] : \A i, j \in 1..Cardinality(keys) : o[i] = o[j] => i = j}

RECURSIVE writeMap(_, _, _)
writeMap(queries, order, first) ==
    IF order = <<>> THEN ""
    ELSE (IF first THEN "" ELSE "&")
         \o Head(order) \o "=" \o QueryEscape(qmapValue(queries, Head(order)))
         \o writeMap(queries, Tail(order), FALSE)

RECURSIVE writeArray(_, _)
writeArray(queries, i) ==
    IF i > Len(queries) THEN ""
    ELSE (IF i > 1 THEN "&" ELSE "")
         \o queries[i].name \o "=" \o QueryEscape(queries[i].value)
         \o writeArray(queries, i + 1)

writeQuery(qmode, queries, order) ==
    IF qmode = QModeLast \/ qmode = QModeError THEN writeMap(queries, order, TRUE)
    ELSE writeArray(queries, 1)

\* scheme, host and port after the defaults
defaultScheme(scheme) == ToLower(IF scheme = "" THEN "https" ELSE scheme)

defaultHost(host) == IF host = "" THEN "localhost" ELSE host

defaultPort(scheme, port) ==
    IF scheme = "https" /\ port = 0 THEN 443
    ELSE IF scheme = "http" /\ port = 0 THEN 80
    ELSE port

\* what Build has written when the path loop starts
writeAuthority(scheme, user, password, host, port) ==
    scheme \o "://"
    \o (IF user # "" THEN user \o (IF password # "" THEN ":" \o password ELSE "") \o "@" ELSE "")
    \o host
    \o (IF ~((scheme = "http" /\ port = 80) \/ (scheme = "https" /\ port = 443))
        THEN ":" \o Itoa(port) ELSE "")

\* Build of src/url-builder.go over the receiver ub, the elements of its two
\* slices and the order the map is ranged in; [s, ub]: the string returned
\* and the receiver as Build leaves it
Build_r1(ub, paths, queries, order) ==
    LET scheme == defaultScheme(ub.scheme)
        host == defaultHost(ub.host)
        port == defaultPort(scheme, ub.port)
        ub1 == [ub EXCEPT !.scheme = scheme, !.host = host, !.port = port]
        b1 == writeAuthority(scheme, ub.user, ub.password, host, port) \o writePath(paths)
        b2 == b1 \o (IF ub.id # "" THEN "/" \o ub.id ELSE "")
        hasTrailing1 == ub.id # ""
        slashQ == Len(queries) > 0 /\ Len(b2) > 0 /\ ub.id = "" /\ Ch(b2, Len(b2)) # "/"
        dup == Len(queries) > 0 /\ ub.qmode = QModeError /\ duplicateFound(queries)
        b3 == IF Len(queries) > 0
              THEN b2 \o (IF slashQ THEN "/" ELSE "") \o "?"
                   \o writeQuery(ub.qmode, queries, order)
              ELSE b2
        b4 == b3 \o (IF ub.fragment # "" THEN "#" \o ub.fragment ELSE "")
        pathAppended == ub.id # "" \/ Len(queries) > 0 \/ ub.fragment # ""
        hasTrailingPart == hasTrailing1 \/ slashQ \/ ub.fragment # ""
        b5 == b4 \o (IF ~pathAppended /\ hasTrailingPart THEN "/" ELSE "")
    IN  IF dup THEN [s |-> "", ub |-> [ub1 EXCEPT !.err = ErrDuplicate]]
        ELSE [s |-> b5, ub |-> ub1]

\* a Build without the last step, the slash written when nothing ended the path
Build_r2_unterminated(ub, paths, queries, order) ==
    LET scheme == defaultScheme(ub.scheme)
        host == defaultHost(ub.host)
        port == defaultPort(scheme, ub.port)
        b1 == writeAuthority(scheme, ub.user, ub.password, host, port) \o writePath(paths)
        term1 == HasSuffix(b1, "/")
        b2 == b1 \o (IF ub.id # "" THEN (IF ~term1 THEN "/" ELSE "") \o ub.id ELSE "")
        term2 == term1 \/ ub.id # ""
        slashQ == Len(queries) > 0 /\ ~term2 /\ ub.endPathWithSlash
        dup == Len(queries) > 0 /\ ub.qmode = QModeError /\ duplicateFound(queries)
        b3 == IF Len(queries) > 0
              THEN b2 \o (IF slashQ THEN "/" ELSE "") \o "?"
                   \o writeQuery(ub.qmode, queries, order)
              ELSE b2
        term3 == term2 \/ slashQ
        slashF == ub.fragment # "" /\ ~term3 /\ ub.endPathWithSlash
        b4 == b3 \o (IF ub.fragment # ""
                     THEN (IF slashF THEN "/" ELSE "") \o "#" \o ub.fragment ELSE "")
        term4 == term3 \/ slashF
        b5 == b4
    IN  IF dup THEN [s |-> "", ub |-> [ub EXCEPT !.err = ErrDuplicate]]
        ELSE [s |-> b5, ub |-> ub]

\* Build of src/unnamed/part_000: cb := *ub takes the defaults, only ub.err
\* is written through the receiver
Build_r2(ub, paths, queries, order) ==
    LET scheme == defaultScheme(ub.scheme)
        host == defaultHost(ub.host)
        port == defaultPort(scheme, ub.port)
        b1 == writeAuthority(scheme, ub.user, ub.password, host, port) \o writePath(paths)
        term1 == HasSuffix(b1, "/")
        b2 == b1 \o (IF ub.id # "" THEN (IF ~term1 THEN "/" ELSE "") \o ub.id ELSE "")
        term2 == term1 \/ ub.id # ""
        slashQ == Len(queries) > 0 /\ ~term2 /\ ub.endPathWithSlash
        dup == Len(queries) > 0 /\ ub.qmode = QModeError /\ duplicateFound(queries)
        b3 == IF Len(queries) > 0
              THEN b2 \o (IF slashQ THEN "/" ELSE "") \o "?"
                   \o writeQuery(ub.qmode, queries, order)
              ELSE b2
        term3 == term2 \/ slashQ
        slashF == ub.fragment # "" /\ ~term3 /\ ub.endPathWithSlash
        b4 == b3 \o (IF ub.fragment # ""
                     THEN (IF slashF THEN "/" ELSE "") \o "#" \o ub.fragment ELSE "")
        term4 == term3 \/ slashF
        b5 == b4 \o (IF ~term4 /\ ub.endPathWithSlash THEN "/" ELSE "")
    IN  IF dup THEN [s |-> "", ub |-> [ub EXCEPT !.err = ErrDuplicate]]
        ELSE [s |-> b5, ub |-> ub]

Build(ub, paths, queries, order) ==
    IF rev = 1 THEN Build_r1(ub, paths, queries, order)
    ELSE Build_r2(ub, paths, queries, order)

\* BuildSafe (revision 2): the string is dropped when ub.err is set after Build
BuildSafe(ub, paths, queries, order) ==
    LET r == Build(ub, paths, queries, order)
    IN  IF r.ub.err # nil THEN [s |-> "", err |-> r.ub.err, ub |-> r.ub]
        ELSE [s |-> r.s, err |-> nil, ub |-> r.ub]

\* Err
Err(ub) == ub.err

-----------------------------------------------------------------------------
(* QueryString (src/query-string.go); qrs is held by one owner only and is *)
(* modelled by its elements                                                *)

\* escape is called by QueryString.Build and defined in no file of src: taken
\* as the percent-encoding of query values the builder applies
escape(v) == QueryEscape(v)

NewQueryString(mode) == [mode |-> mode, qrs |-> <<>>, err |-> nil]

Nv(name, value, q) == [q EXCEPT !.qrs = Append(@, [name |-> name, value |-> Sprint(value)])]

RECURSIVE qsWriteMap(_, _, _)
qsWriteMap(qrs, order, first) ==
    IF order = <<>> THEN ""
    ELSE (IF first THEN "" ELSE "&")
         \o Head(order) \o "=" \o escape(qmapValue(qrs, Head(order)))
         \o qsWriteMap(qrs, Tail(order), FALSE)

RECURSIVE qsWriteArray(_, _)
qsWriteArray(qrs, i) ==
    IF i > Len(qrs) THEN ""
    ELSE (IF i > 1 THEN "&" ELSE "")
         \o qrs[i].name \o "=" \o escape(qrs[i].value)
         \o qsWriteArray(qrs, i + 1)

\* a Build that returns "" on a duplicate without storing the error
QueryStringBuild_silent(q, order) ==
    IF Len(q.qrs) = 0 THEN [s |-> "", q |-> q]
    ELSE IF q.mode = QModeError /\ duplicateFound(q.qrs) THEN [s |-> "", q |-> q]
    ELSE IF q.mode = QModeLast \/ q.mode = QModeError
    THEN [s |-> qsWriteMap(q.qrs, order, TRUE), q |-> q]
    ELSE [s |-> qsWriteArray(q.qrs, 1), q |-> q]

\* qs.Build() with the order the map is ranged in; [s, q]
QueryStringBuild(q, order) ==
    IF Len(q.qrs) = 0 THEN [s |-> "", q |-> q]
    ELSE IF q.mode = QModeError /\ duplicateFound(q.qrs)
    THEN [s |-> "", q |-> [q EXCEPT !.err = ErrDuplicate]]
    ELSE IF q.mode = QModeLast \/ q.mode = QModeError
    THEN [s |-> qsWriteMap(q.qrs, order, TRUE), q |-> q]
    ELSE [s |-> qsWriteArray(q.qrs, 1), q |-> q]

-----------------------------------------------------------------------------
(* The state machine.                                                      *)
(*   ubs   the builders: ubs[1] is made by New, the others by Clone        *)
(*   pmem, qmem   the backing arrays of the path and query slices          *)
(*   out   per builder, what its most recent Build/String/BuildSafe gave   *)
(*   last  the operation of the last step                                  *)
(*   conf  per builder, what the configuration calls on it (and, for a     *)
(*         clone, on its source up to the Clone) asked for: the Query      *)
(*         calls with a name, the scheme and the port last given, and the  *)
(*         input of the last Host call if no Sch or Port call followed it, *)
(*         the Path calls with a segment, every Query call (asked), the    *)
(*         mode last given and whether a Mode call changed the mode after  *)
(*         a named Query call (moved)                                      *)
(*   nops  steps taken                                                     *)
(*   calls per goroutine, the Build call it runs on ubs[1]: where it is,   *)
(*         its copy cb of the builder (revision 2), what it returned and   *)
(*         the fields of the shared builder it has read and written        *)
(*   qs    the QueryString in use (q), and what its Build returned if no   *)
(*         Nv call followed it                                             *)

Builders == 1..Len(ubs)

\* by: the method called; s, err: what it returned; raw: what Build returned
NotBuilt == [built |-> FALSE, by |-> "", s |-> "", raw |-> "", err |-> nil]


NoPart == Part("", "", "", 0, StrV(""), FALSE)

SchInputs == {"", "HTTP", "ftp"}
HostInputs == {"", "example.com", "localhost:3000", "h.io:443", "10.0.0.1:8080",
               "https://example.com:1500/api/users", "http://h.io:80/v1/"}
UsrInputs == {"", "admin"}
PwdInputs == {"", "secret"}
PathInputs == {"", "api", "/", "/a\"b/"}
IDInputs == {StrV(""), StrV("k/1"), IntV(42)}
PortInputs == {0, 80, 443, 8080}
ModeInputs == {QModeLast, QModeArray, QModeError}
NameInputs == {"", "x", "y"}
ValueInputs == {StrV("a b"), IntV(2)}
FragInputs == {"", "top"}

SchParts == {Part("Sch", s, "", 0, StrV(""), FALSE) : s \in SchInputs}
HostParts == {Part("Host", h, "", 0, StrV(""), FALSE) : h \in HostInputs}
UsrParts == {Part("Usr", u, "", 0, StrV(""), FALSE) : u \in UsrInputs}
PwdParts == {Part("Pwd", p, "", 0, StrV(""), FALSE) : p \in PwdInputs}
UsrPwdParts == {Part("UsrPwd", u, p, 0, StrV(""), FALSE) : u \in UsrInputs, p \in PwdInputs}
PathParts == {Part("Path", p, "", 0, StrV(""), FALSE) : p \in PathInputs}
IDParts == {Part("ID", "", "", 0, i, FALSE) : i \in IDInputs}
PortParts == {Part("Port", "", "", p, StrV(""), FALSE) : p \in PortInputs}
ModeParts == {Part("Mode", "", "", m, StrV(""), FALSE) : m \in ModeInputs}
QueryParts == {Part("Query", n, "", 0, v, FALSE) : n \in NameInputs, v \in ValueInputs}
FragParts == {Part("Frag", f, "", 0, StrV(""), FALSE) : f \in FragInputs}
EndPathWithSlashParts == {Part("EndPathWithSlash", "", "", 0, StrV(""), e) : e \in BOOLEAN}

\* the parts a Clone call is given in the model: none, or up to MaxCloneParts
\* of Path and Query
CloneParts ==
    UNION {[1..n -> {p \in PathParts \cup QueryParts : p.a # ""}] : n \in 0..MaxCloneParts}

\* what Host(h) asks for: the scheme and port its input carries, and the input
NoteHost(l, h, c) ==
    [c EXCEPT !.scheme = IF l.scheme # "" THEN l.scheme ELSE @,
              !.port = IF l.port # 0 THEN l.port ELSE @,
              !.hostIn = h]

\* what a part asks for, recorded in conf
Note(part, c, r) ==
    CASE part.op = "Query" /\ part.a # "" ->
            [c EXCEPT !.queries = Append(@, [name |-> part.a, value |-> Sprint(part.v)]),
                      !.asked = Append(@, [name |-> part.a, value |-> Sprint(part.v)])]
      [] part.op = "Mode" ->
            [c EXCEPT !.mode = part.n,
                      !.moved = @ \/ (c.queries # <<>> /\ part.n # c.mode)]
      [] part.op = "Query" ->
            [c EXCEPT !.asked = Append(@, [name |-> part.a, value |-> Sprint(part.v)])]
      [] part.op = "Sch" /\ part.a # "" -> [c EXCEPT !.scheme = part.a, !.hostIn = ""]
      [] part.op = "Port" /\ part.n # 0 -> [c EXCEPT !.port = part.n, !.hostIn = ""]
      [] part.op = "Path" /\ part.a # "" -> [c EXCEPT !.paths = Append(@, part.a)]
      [] part.op = "Host" /\ part.a # "" -> NoteHost(HostLocals(part.a, r = 1), part.a, c)
      [] OTHER -> c

RECURSIVE NoteAll(_, _, _)
NoteAll(parts, c, r) ==
    IF parts = <<>> THEN c ELSE NoteAll(Tail(parts), Note(Head(parts), c, r), r)

StOf(b) == [ub |-> ubs[b], pmem |-> pmem, qmem |-> qmem]

PathOf(b) == Elems(pmem, ubs[b].path)
QueryOf(b) == Elems(qmem, ubs[b].query)

Threads == 1..MaxThreads

Fields == {"scheme", "host", "port", "user", "password", "path", "id", "query",
           "qmode", "fragment", "err", "endPathWithSlash"}

Read(fs) == {[f |-> x, k |-> "r"] : x \in fs}

Write(fs) == {[f |-> x, k |-> "w"] : x \in fs}

NoCall == [pc |-> "idle", cb |-> ZeroUrlBuilder, ret |-> "", acc |-> {}]

Init ==
    /\ calls = [t \in Threads |-> NoCall]
    /\ rev \in {1, 2}
    /\ ubs = <<New.ub>>
    /\ pmem = New.pmem
    /\ qmem = New.qmem
    /\ out = <<NotBuilt>>
    /\ last = [op |-> "New", b |-> 1, part |-> NoPart]
    /\ conf = <<[queries |-> <<>>, scheme |-> "", port |-> 0, hostIn |-> "", paths |-> <<>>,
              asked |-> <<>>, mode |-> QModeLast, moved |-> FALSE]>>
    /\ qs = [q |-> NewQueryString(QModeLast), built |-> FALSE, s |-> ""]
    /\ nops = 0

\* p(&ub) for one UrlPart p on builder b
Config(lim, b, part) ==
    LET r == Apply(part, StOf(b))
    IN  /\ nops < lim
        /\ ubs' = [ubs EXCEPT ![b] = r.ub]
        /\ pmem' = r.pmem
        /\ qmem' = r.qmem
        /\ conf' = [conf EXCEPT ![b] = Note(part, @, rev)]
        /\ last' = [op |-> part.op, b |-> b, part |-> part]
        /\ nops' = nops + 1
        /\ UNCHANGED <<rev, out, calls, qs>>

SchOp(lim) == \E b \in Builders, p \in SchParts : Config(lim, b, p)
HostOp(lim) == \E b \in Builders, p \in HostParts : Config(lim, b, p)
UsrOp(lim) == \E b \in Builders, p \in UsrParts : Config(lim, b, p)
PwdOp(lim) == \E b \in Builders, p \in PwdParts : Config(lim, b, p)
UsrPwdOp(lim) == \E b \in Builders, p \in UsrPwdParts : Config(lim, b, p)
PathOp(lim) == \E b \in Builders, p \in PathParts : Config(lim, b, p)
IDOp(lim) == \E b \in Builders, p \in IDParts : Config(lim, b, p)
PortOp(lim) == \E b \in Builders, p \in PortParts : Config(lim, b, p)
ModeOp(lim) == \E b \in Builders, p \in ModeParts : Config(lim, b, p)
QueryOp(lim) == \E b \in Builders, p \in QueryParts : Config(lim, b, p)
FragOp(lim) == \E b \in Builders, p \in FragParts : Config(lim, b, p)
EndPathWithSlashOp(lim) ==
    /\ rev = 2
    /\ \E b \in Builders, p \in EndPathWithSlashParts : Config(lim, b, p)

\* Clone(ubs[src], parts...) and the method form, which only forwards, with
\* the parts drawn from the set given
CloneWith(lim, given) ==
    \E src \in Builders, parts \in given :
        LET r == Clone(parts, StOf(src))
        IN  /\ nops < lim
            /\ Len(ubs) < MaxBuilders
            /\ ubs' = Append(ubs, r.ub)
            /\ pmem' = r.pmem
            /\ qmem' = r.qmem
            /\ out' = Append(out, NotBuilt)
            /\ conf' = Append(conf, NoteAll(parts, conf[src], rev))
            /\ last' = [op |-> "Clone", b |-> Len(ubs) + 1, part |-> NoPart]
            /\ nops' = nops + 1
            /\ UNCHANGED <<rev, calls, qs>>

CloneOp(lim) == CloneWith(lim, CloneParts)

\* ub.Clone(), the method called without parts
CloneBareOp(lim) == CloneWith(lim, {<<>>})

\* ub.Build(), with name the method called: String only forwards to Build
Render(lim, name) ==
    \E b \in Builders : \E order \in mapOrders(qmapKeys(QueryOf(b))) :
        LET r == Build(ubs[b], PathOf(b), QueryOf(b), order)
        IN  /\ nops < lim
            /\ ubs' = [ubs EXCEPT ![b] = r.ub]
            /\ out' = [out EXCEPT ![b] = [built |-> TRUE, by |-> name, s |-> r.s, raw |-> r.s, err |-> nil]]
            /\ last' = [op |-> name, b |-> b, part |-> NoPart]
            /\ nops' = nops + 1
            /\ UNCHANGED <<rev, pmem, qmem, conf, calls, qs>>

BuildOp(lim) == Render(lim, "Build")

StringOp(lim) == Render(lim, "String")

BuildSafeOp(lim) ==
    /\ rev = 2
    /\ \E b \in Builders : \E order \in mapOrders(qmapKeys(QueryOf(b))) :
        LET r == BuildSafe(ubs[b], PathOf(b), QueryOf(b), order)
            raw == Build(ubs[b], PathOf(b), QueryOf(b), order).s
        IN  /\ nops < lim
            /\ ubs' = [ubs EXCEPT ![b] = r.ub]
            /\ out' = [out EXCEPT ![b] = [built |-> TRUE, by |-> "BuildSafe", s |-> r.s, raw |-> raw, err |-> r.err]]
            /\ last' = [op |-> "BuildSafe", b |-> b, part |-> NoPart]
            /\ nops' = nops + 1
            /\ UNCHANGED <<rev, pmem, qmem, conf, calls, qs>>

\* Build calls that run concurrently on ubs[1], one per goroutine, with no
\* synchronisation between them.  A step is one statement group of Build;
\* acc collects the fields of the shared builder the call has touched.

AllIdle == \A t \in Threads : calls[t].pc = "idle"

\* go ub.Build() once per goroutine
GoOp ==
    /\ AllIdle
    /\ calls' = [t \in Threads |-> [NoCall EXCEPT !.pc = IF rev = 1 THEN "scheme" ELSE "copy"]]
    /\ last' = [op |-> "Go", b |-> 1, part |-> NoPart]
    /\ UNCHANGED <<rev, ubs, pmem, qmem, out, conf, nops, qs>>

\* what a step of goroutine t leaves: the shared builder, the call
Step(t, ub, call) ==
    /\ ubs' = [ubs EXCEPT ![1] = ub]
    /\ calls' = [calls EXCEPT ![t] = call]
    /\ last' = [op |-> "Step", b |-> 1, part |-> NoPart]
    /\ UNCHANGED <<rev, pmem, qmem, out, conf, nops, qs>>

\* src/url-builder.go:404-407, the scheme default and ToLower stored in ub
SchemeStep ==
    \E t \in Threads :
        /\ calls[t].pc = "scheme"
        /\ Step(t, [ubs[1] EXCEPT !.scheme = defaultScheme(@)],
                [calls[t] EXCEPT !.pc = "host",
                                 !.acc = @ \cup Read({"scheme"}) \cup Write({"scheme"})])

\* src/url-builder.go:409-411
HostStep ==
    \E t \in Threads :
        /\ calls[t].pc = "host"
        /\ Step(t, [ubs[1] EXCEPT !.host = defaultHost(@)],
                [calls[t] EXCEPT !.pc = "port",
                                 !.acc = @ \cup Read({"host"})
                                           \cup (IF ubs[1].host = "" THEN Write({"host"}) ELSE {})])

\* src/url-builder.go:413-422
PortStep ==
    \E t \in Threads :
        /\ calls[t].pc = "port"
        /\ Step(t, [ubs[1] EXCEPT !.port = defaultPort(ubs[1].scheme, @)],
                [calls[t] EXCEPT !.pc = "render",
                                 !.acc = @ \cup Read({"scheme"})
                                           \cup (IF ubs[1].scheme \in {"http", "https"}
                                                 THEN Read({"port"}) ELSE {})
                                           \cup (IF defaultPort(ubs[1].scheme, ubs[1].port) # ubs[1].port
                                                 THEN Write({"port"}) ELSE {})])

\* src/unnamed/part_000:329, cb := *ub
CopyStep ==
    \E t \in Threads :
        /\ calls[t].pc = "copy"
        /\ Step(t, ubs[1], [calls[t] EXCEPT !.pc = "render", !.cb = ubs[1],
                                            !.acc = @ \cup Read(Fields)])

\* the rest of Build: revision 1 writes from ub, revision 2 from cb; the
\* duplicate found in QModeError is stored in ub.err by both
RenderStep ==
    \E t \in Threads : \E order \in mapOrders(qmapKeys(QueryOf(1))) :
        LET r == Build(IF rev = 1 THEN ubs[1] ELSE calls[t].cb, PathOf(1), QueryOf(1), order)
        IN  /\ calls[t].pc = "render"
            /\ Step(t, [ubs[1] EXCEPT !.err = IF r.s = "" THEN ErrDuplicate ELSE @],
                    [calls[t] EXCEPT !.pc = "done", !.ret = r.s,
                                     !.acc = @ \cup (IF rev = 1
                                                     THEN Read(Fields \ {"err", "endPathWithSlash"})
                                                     ELSE {})
                                               \cup (IF r.s = "" THEN Write({"err"}) ELSE {})])

\* NewQueryString(mode): a fresh QueryString replaces the one in use
NewQueryStringOp(lim) ==
    \E m \in ModeInputs :
        /\ nops < lim
        /\ qs' = [q |-> NewQueryString(m), built |-> FALSE, s |-> ""]
        /\ last' = [op |-> "NewQueryString", b |-> 1, part |-> NoPart]
        /\ nops' = nops + 1
        /\ UNCHANGED <<rev, ubs, pmem, qmem, out, conf, calls>>

\* Nv(name, value)(&qs)
NvOp(lim) ==
    \E n \in NameInputs, v \in ValueInputs :
        /\ nops < lim
        /\ qs' = [q |-> Nv(n, v, qs.q), built |-> FALSE, s |-> ""]
        /\ last' = [op |-> "Nv", b |-> 1, part |-> NoPart]
        /\ nops' = nops + 1
        /\ UNCHANGED <<rev, ubs, pmem, qmem, out, conf, calls>>

\* qs.Build(), qs.String()
QueryStringBuildOp(lim) ==
    \E order \in mapOrders(qmapKeys(qs.q.qrs)) :
        LET r == QueryStringBuild(qs.q, order)
        IN  /\ nops < lim
            /\ qs' = [q |-> r.q, built |-> TRUE, s |-> r.s]
            /\ last' = [op |-> "QueryString.Build", b |-> 1, part |-> NoPart]
            /\ nops' = nops + 1
            /\ UNCHANGED <<rev, ubs, pmem, qmem, out, conf, calls>>

\* every operation of the package
Next ==
    \/ SchOp(MaxOps) \/ HostOp(MaxOps) \/ UsrOp(MaxOps) \/ PwdOp(MaxOps)
    \/ UsrPwdOp(MaxOps) \/ PathOp(MaxOps) \/ IDOp(MaxOps) \/ PortOp(MaxOps)
    \/ ModeOp(MaxOps) \/ QueryOp(MaxOps) \/ FragOp(MaxOps)
    \/ EndPathWithSlashOp(MaxOps) \/ CloneOp(MaxOps)
    \/ BuildOp(MaxOps) \/ StringOp(MaxOps) \/ BuildSafeOp(MaxOps)
    \/ NewQueryStringOp(MaxOps) \/ NvOp(MaxOps) \/ QueryStringBuildOp(MaxOps)

Spec == Init /\ [][Next]_vars

\* query pairs, modes and renders on the builder New made
NextQuery == QueryOp(MaxQueryOps) \/ ModeOp(MaxQueryOps) \/ BuildOp(MaxQueryOps)

SpecQuery == Init /\ [][NextQuery]_vars

\* clones and appends
NextClone ==
    \/ PathOp(MaxCloneOps) \/ QueryOp(MaxCloneOps) \/ CloneOp(MaxCloneOps)
    \/ BuildOp(MaxCloneOps)

SpecClone == Init /\ [][NextClone]_vars

\* hosts, schemes, ports, paths, ids and renders
NextHost ==
    \/ HostOp(MaxHostOps) \/ SchOp(MaxHostOps) \/ PortOp(MaxHostOps)
    \/ PathOp(MaxHostOps) \/ IDOp(MaxHostOps) \/ BuildOp(MaxHostOps)

SpecHost == Init /\ [][NextHost]_vars

\* Query("x", 2) on any builder
QueryXOp(lim) == QueryOp(lim) /\ last'.part.a = "x" /\ last'.part.v = IntV(2)

\* one query pair, modes, clones without parts and the three renders
NextErr ==
    \/ QueryXOp(MaxErrOps) \/ ModeOp(MaxErrOps) \/ CloneBareOp(MaxErrOps)
    \/ BuildOp(MaxErrOps) \/ StringOp(MaxErrOps) \/ BuildSafeOp(MaxErrOps)

SpecErr == Init /\ [][NextErr]_vars

\* path segments, ids, query pairs, fragments, the trailing-slash policy and
\* renders
NextPath ==
    \/ PathOp(MaxPathOps) \/ IDOp(MaxPathOps) \/ QueryOp(MaxPathOps)
    \/ FragOp(MaxPathOps) \/ EndPathWithSlashOp(MaxPathOps) \/ BuildOp(MaxPathOps)

SpecPath == Init /\ [][NextPath]_vars

\* path segments and renders only
NextSeg == PathOp(MaxSegOps) \/ BuildOp(MaxSegOps)

SpecSeg == Init /\ [][NextSeg]_vars

\* configuration on the one goroutine, then concurrent Builds
NextConc ==
    \/ (AllIdle /\ QueryXOp(MaxConcOps))
    \/ (AllIdle /\ ModeOp(MaxConcOps))
    \/ (AllIdle /\ SchOp(MaxConcOps))
    \/ GoOp \/ SchemeStep \/ HostStep \/ PortStep \/ CopyStep \/ RenderStep

SpecConc == Init /\ [][NextConc]_vars

\* a QueryString and the builder New made, fed pairs and rendered
NextQS ==
    \/ NewQueryStringOp(MaxQSOps) \/ NvOp(MaxQSOps) \/ QueryStringBuildOp(MaxQSOps)
    \/ QueryOp(MaxQSOps) \/ ModeOp(MaxQSOps) \/ BuildOp(MaxQSOps)

SpecQS == Init /\ [][NextQS]_vars

\* a QueryString alone
NextNv == NewQueryStringOp(MaxNvOps) \/ NvOp(MaxNvOps) \/ QueryStringBuildOp(MaxNvOps)

SpecNv == Init /\ [][NextNv]_vars

\* the configuration operations that skip an empty input, on the builder
\* New made
NextPart ==
    \/ SchOp(MaxPartOps) \/ HostOp(MaxPartOps) \/ UsrOp(MaxPartOps) \/ PwdOp(MaxPartOps)
    \/ UsrPwdOp(MaxPartOps) \/ PathOp(MaxPartOps) \/ IDOp(MaxPartOps) \/ PortOp(MaxPartOps)
    \/ QueryOp(MaxPartOps) \/ FragOp(MaxPartOps)

SpecPart == Init /\ [][NextPart]_vars

\* hosts, schemes and renders
NextBare == HostOp(MaxBareOps) \/ SchOp(MaxBareOps) \/ BuildOp(MaxBareOps)

SpecBare == Init /\ [][NextBare]_vars

-----------------------------------------------------------------------------
(* Properties                                                              *)

RenderOps == {"Build", "String", "BuildSafe"}

\* the strings Build can return for builder b, one per order of the map
BuildOutputs(b) ==
    {Build(ubs[b], PathOf(b), QueryOf(b), o).s : o \in mapOrders(qmapKeys(QueryOf(b)))}

\* the configuration of builder b: every field but err, the slices by content
ConfigOf(b) ==
    [scheme |-> ubs[b].scheme, host |-> ubs[b].host, port |-> ubs[b].port,
     user |-> ubs[b].user, password |-> ubs[b].password, path |-> PathOf(b),
     id |-> ubs[b].id, query |-> QueryOf(b), qmode |-> ubs[b].qmode,
     fragment |-> ubs[b].fragment, endPathWithSlash |-> ubs[b].endPathWithSlash]

\* C1: a configuration operation on one builder, or a Clone with parts,
\* leaves the path and query sequences and the possible Build outputs of
\* every other builder as they were.
C1_OnlyTargetChanges ==
    [][\A y \in Builders :
          (last'.op \notin RenderOps /\ y # last'.b)
          => /\ PathOf(y)' = PathOf(y)
             /\ QueryOf(y)' = QueryOf(y)
             /\ BuildOutputs(y)' = BuildOutputs(y)]_vars

\* C2: Build, String and BuildSafe leave every configuration field of the
\* receiver unchanged.
C2_BuildKeepsConfig ==
    [][\A b \in Builders :
          (last'.op \in RenderOps /\ b = last'.b) => ConfigOf(b)' = ConfigOf(b)]_vars

\* C3: a Build that directly follows a Build on the same builder returns the
\* string the first one returned.
C3_BuildTwiceSame ==
    [][(last.op \in RenderOps /\ last'.op \in RenderOps /\ last'.b = last.b)
          => out'[last.b].raw = out[last.b].raw]_vars

\* the pieces of a built URL
RECURSIVE SplitAmp(_)
SplitAmp(s) ==
    IF s = "" THEN <<>>
    ELSE <<Cut(s, "&").before>> \o SplitAmp(Cut(s, "&").after)

\* the text between "?" and "#" (or the end), as the sequence of its pairs
RenderedPairs(s) == SplitAmp(Cut(Cut(s, "?").after, "#").before)

PairText(q) == q.name \o "=" \o QueryEscape(q.value)

NamesRepeat(pairs) == \E i, j \in 1..Len(pairs) : i # j /\ pairs[i].name = pairs[j].name

NamesOf(pairs) == {pairs[i].name : i \in 1..Len(pairs)}

\* the value of the last call in pairs made with name k
LastValue(pairs, k) ==
    pairs[CHOOSE i \in 1..Len(pairs) : pairs[i].name = k /\ \A j \in (i + 1)..Len(pairs) : pairs[j].name # k].value

Rendered(b) == last.op \in RenderOps /\ last.b = b

\* C4: Build in QModeError returns "" and leaves an error when two of the
\* Query calls share a name; otherwise it returns a URL that holds every pair
\* and leaves Err nil.
C4_ErrorMode ==
    \A b \in Builders :
        (Rendered(b) /\ ubs[b].qmode = QModeError)
        => IF NamesRepeat(conf[b].queries)
           THEN out[b].raw = "" /\ Err(ubs[b]) # nil
           ELSE /\ out[b].raw # ""
                /\ Len(RenderedPairs(out[b].raw)) = Len(conf[b].queries)
                /\ \A i \in 1..Len(conf[b].queries) :
                      \E j \in 1..Len(RenderedPairs(out[b].raw)) :
                          RenderedPairs(out[b].raw)[j] = PairText(conf[b].queries[i])
                /\ Err(ubs[b]) = nil

C4_Witness ==
    /\ Rendered(1) /\ ubs[1].qmode = QModeError
    /\ Len(conf[1].queries) = 3 /\ NamesRepeat(conf[1].queries)
    /\ conf[1].queries[1].name # conf[1].queries[2].name
    /\ out[1].raw = "" /\ Err(ubs[1]) # nil

\* C5: on a builder that has been built, Err is non-nil exactly when its most
\* recent Build returned "", and BuildSafe returned an error exactly when its
\* Build did.
C5_ErrFollowsLastBuild ==
    \A b \in Builders :
        /\ out[b].built => ((Err(ubs[b]) # nil) <=> (out[b].raw = ""))
        /\ out[b].by = "BuildSafe" => ((out[b].err # nil) <=> (out[b].raw = ""))

C7_LastWins ==
    \A b \in Builders :
        (Rendered(b) /\ ubs[b].qmode = QModeLast)
        => /\ Len(RenderedPairs(out[b].raw)) = Cardinality(NamesOf(conf[b].queries))
           /\ \A k \in NamesOf(conf[b].queries) :
                 \E j \in 1..Len(RenderedPairs(out[b].raw)) :
                     RenderedPairs(out[b].raw)[j]
                        = k \o "=" \o QueryEscape(LastValue(conf[b].queries, k))

C7_Witness ==
    /\ Rendered(1) /\ ubs[1].qmode = QModeLast
    /\ Len(conf[1].queries) = 3
    /\ conf[1].queries[1].name = conf[1].queries[3].name
    /\ conf[1].queries[1].value # conf[1].queries[3].value
    /\ conf[1].queries[2].name # conf[1].queries[1].name
    /\ Len(RenderedPairs(out[1].raw)) = 2

\* 1-based position of the first occurrence of sub in s, 0 if there is none
IndexOf(s, sub) ==
    IF Contains(s, sub)
    THEN CHOOSE i \in 1..(Len(s) - Len(sub) + 1) :
            /\ SubSeq(s, i, i + Len(sub) - 1) = sub
            /\ \A j \in 1..(i - 1) : SubSeq(s, j, j + Len(sub) - 1) # sub
    ELSE 0

\* s without what precedes its first "://" and the "://" itself
AfterScheme(s) ==
    IF IndexOf(s, "://") = 0 THEN s ELSE SubSeq(s, IndexOf(s, "://") + 3, Len(s))

\* the longest prefix of s without a byte of stops
UpTo(s, stops) ==
    IF \E i \in 1..Len(s) : IsIn(Ch(s, i), stops)
    THEN SubSeq(s, 1, (CHOOSE i \in 1..Len(s) :
                          /\ IsIn(Ch(s, i), stops)
                          /\ \A j \in 1..(i - 1) : ~IsIn(Ch(s, j), stops)) - 1)
    ELSE s

\* of a URL or a Host input: the text between "://" and the path, the host
\* and port in it, the port digits, and the path up to the query or fragment
Authority(s) == UpTo(AfterScheme(s), "/?#")

HostPort(s) == IF Cut(Authority(s), "@").found THEN Cut(Authority(s), "@").after ELSE Authority(s)

HostName(s) == Cut(HostPort(s), ":").before

PortText(s) == Cut(HostPort(s), ":").after

PathText(s) ==
    UpTo(SubSeq(AfterScheme(s), Len(Authority(s)) + 1, Len(AfterScheme(s))), "?#")

SchemeText(s) == IF IndexOf(s, "://") = 0 THEN "" ELSE SubSeq(s, 1, IndexOf(s, "://") - 1)

RECURSIVE TrimSlashes(_)
TrimSlashes(s) ==
    IF HasPrefix(s, "/") THEN TrimSlashes(SubSeq(s, 2, Len(s)))
    ELSE IF HasSuffix(s, "/") THEN TrimSlashes(SubSeq(s, 1, Len(s) - 1))
    ELSE s

ConventionalPort(scheme) == IF scheme = "http" THEN 80 ELSE 443

\* the scheme Build is to use for builder b: the one last given, lower-cased,
\* https when none was given
SchemeAsked(b) == IF conf[b].scheme = "" THEN "https" ELSE ToLower(conf[b].scheme)

\* C8: with scheme http or https, the built URL has ":<port>" after the host
\* exactly when a port was given and is not the conventional port of the scheme.
C8_PortWritten ==
    \A b \in Builders :
        (Rendered(b) /\ out[b].raw # "" /\ SchemeAsked(b) \in {"http", "https"})
        => PortText(out[b].raw) =
              IF conf[b].port # 0 /\ conf[b].port # ConventionalPort(SchemeAsked(b))
              THEN Itoa(conf[b].port) ELSE ""

\* a Host input of the form <scheme>://<host>[:<port>]/<path>, scheme http(s)
UrlShaped(h) == SchemeText(h) \in {"http", "https"} /\ PathText(h) # ""

\* C9: after Host with a URL-shaped input (and no Sch or Port since) the built
\* URL starts with the scheme and host of the input, writes the port of the
\* input when it is not the conventional one, and holds the whole path of the
\* input as consecutive segments.
C9_HostUrlUsed ==
    \A b \in Builders :
        (Rendered(b) /\ out[b].raw # "" /\ UrlShaped(conf[b].hostIn))
        => /\ SchemeText(out[b].raw) = SchemeText(conf[b].hostIn)
           /\ HostName(out[b].raw) = HostName(conf[b].hostIn)
           /\ (/\ PortText(conf[b].hostIn) # ""
               /\ PortText(conf[b].hostIn) # Itoa(ConventionalPort(SchemeText(conf[b].hostIn))))
              => PortText(out[b].raw) = PortText(conf[b].hostIn)
           /\ Contains(PathText(out[b].raw) \o "/",
                       "/" \o TrimSlashes(PathText(conf[b].hostIn)) \o "/")

\* C10: Host with a non-empty input sets the host to the host name of the
\* input, leaves id, user, password, query pairs, mode and fragment as they
\* were, and leaves scheme, port and path as they were when the input has no
\* scheme, no port, no path.
C10_HostFrame ==
    [][\A b \in Builders :
          (last'.op = "Host" /\ last'.part.a # "" /\ last'.b = b)
          => /\ ubs'[b].host = HostName(last'.part.a)
             /\ ubs'[b].id = ubs[b].id
             /\ ubs'[b].user = ubs[b].user
             /\ ubs'[b].password = ubs[b].password
             /\ QueryOf(b)' = QueryOf(b)
             /\ ubs'[b].qmode = ubs[b].qmode
             /\ ubs'[b].fragment = ubs[b].fragment
             /\ SchemeText(last'.part.a) = "" => ubs'[b].scheme = ubs[b].scheme
             /\ PortText(last'.part.a) = "" => ubs'[b].port = ubs[b].port
             /\ PathText(last'.part.a) = "" => PathOf(b)' = PathOf(b)]_vars

\* s with every double quote replaced by "/" and then without one leading
\* and one trailing "/", where it has them
Clean(s) ==
    LET r == [i \in 1..Len(s) |-> IF Ch(s, i) = "\"" THEN "/" ELSE Ch(s, i)]
        t == IF Len(s) > 0 /\ r[1] = "/" THEN 2 ELSE 1
        u == IF Len(s) >= t /\ r[Len(s)] = "/" THEN Len(s) - 1 ELSE Len(s)
    IN  ReplaceAll(SubSeq(s, t, u), "\"", "/")

\* the segments given to Path, cleaned, each after one "/"
RECURSIVE SegmentsText(_)
SegmentsText(paths) ==
    IF paths = <<>> THEN "" ELSE "/" \o Clean(Head(paths)) \o SegmentsText(Tail(paths))

DropLast(s, n) == SubSeq(s, 1, Len(s) - n)

DropSlash(s) == IF HasSuffix(s, "/") THEN DropLast(s, 1) ELSE s

\* C11: with an id set, the path part of the built URL is the segments in
\* call order, one "/" and the id as given; the "/" before the id is not
\* doubled.
C11_IdLast ==
    \A b \in Builders :
        (Rendered(b) /\ out[b].raw # "" /\ ubs[b].id # "")
        => /\ HasSuffix(PathText(out[b].raw), "/" \o ubs[b].id)
           /\ DropLast(PathText(out[b].raw), Len(ubs[b].id) + 1)
                 = DropSlash(SegmentsText(conf[b].paths))
           /\ ~HasSuffix(DropLast(PathText(out[b].raw), Len(ubs[b].id) + 1), "/")

\* C12: a builder given only Path operations builds "https://localhost"
\* followed by the cleaned segments in call order, each after one "/".
C12_SegmentsCleaned ==
    \A b \in Builders :
        Rendered(b) => out[b].raw = "https://localhost" \o SegmentsText(conf[b].paths)

C12_Witness ==
    /\ Rendered(1)
    /\ conf[1].paths = <<"/a\"b/", "api", "/">>
    /\ out[1].raw = "https://localhost/a/b/api/"

C14_DefaultEndsInSlash ==
    \A b \in Builders :
        (/\ Rendered(b) /\ out[b].raw # ""
         /\ ~ubs[b].endPathWithSlash /\ ubs[b].host # "" /\ PathOf(b) # <<>>
         /\ ubs[b].id = "" /\ ubs[b].fragment = "")
        => HasSuffix(PathText(out[b].raw), "/")

\* the fields two of the concurrent calls have both touched, one writing
Races ==
    {x \in Fields : \E t, u \in Threads :
        /\ t # u
        /\ [f |-> x, k |-> "w"] \in calls[t].acc
        /\ \E k \in {"r", "w"} : [f |-> x, k |-> k] \in calls[u].acc}

\* C15: concurrent Build calls on one builder write no field of it, so no
\* two of them race, and each returns a string a Build alone would return.
C15_ConcurrentBuilds ==
    /\ \A t \in Threads : \A x \in Fields : [f |-> x, k |-> "w"] \notin calls[t].acc
    /\ Races = {}
    /\ \A t \in Threads : calls[t].pc = "done" => calls[t].ret \in BuildOutputs(1)

\* the elements of a sequence
Range(f) == {f[i] : i \in 1..Len(f)}

\* C16: a QueryString and a builder of the same mode that were given the same
\* pairs, by Nv and by Query, render the same pairs: as many, the same texts,
\* and in QModeArray in the same order.
C16_SameAsBuilder ==
    (/\ Rendered(1) /\ qs.built
     /\ qs.q.qrs = conf[1].asked /\ qs.q.mode = ubs[1].qmode)
    => /\ Len(SplitAmp(qs.s)) = Len(RenderedPairs(out[1].raw))
       /\ Range(SplitAmp(qs.s)) = Range(RenderedPairs(out[1].raw))
       /\ qs.q.mode = QModeArray => SplitAmp(qs.s) = RenderedPairs(out[1].raw)

\* C17: QueryString.Build in QModeError with a repeated name returns "" and
\* stores an error; otherwise it stores none and returns "" only when the
\* QueryString has no pairs.
C17_QueryStringErr ==
    last.op = "QueryString.Build"
    => IF qs.q.mode = QModeError /\ NamesRepeat(qs.q.qrs)
       THEN qs.s = "" /\ qs.q.err # nil
       ELSE qs.q.err = nil /\ (qs.s = "" <=> qs.q.qrs = <<>>)

C17_Witness ==
    /\ last.op = "QueryString.Build"
    /\ qs.q.mode = QModeError /\ Len(qs.q.qrs) = 2 /\ NamesRepeat(qs.q.qrs)
    /\ qs.q.qrs[1].value # qs.q.qrs[2].value
    /\ qs.s = "" /\ qs.q.err # nil

\* the parts the claim lists: an empty string, the port 0, a pair without a
\* name, a user or a password missing
EmptyPart(p) ==
    \/ p.op \in {"Sch", "Host", "Usr", "Pwd", "Path", "Frag", "Query"} /\ p.a = ""
    \/ p.op = "ID" /\ p.v = StrV("")
    \/ p.op = "Port" /\ p.n = 0
    \/ p.op = "UsrPwd" /\ (p.a = "" \/ p.b = "")

\* C18: an operation with an empty input leaves every field of every
\* builder and the memory of the slices as they were, which is all that Build
\* reads.
C18_EmptyInputsNoOp ==
    [][EmptyPart(last'.part) => (ubs' = ubs /\ pmem' = pmem /\ qmem' = qmem)]_vars

C18_Witness ==
    /\ last.op = "UsrPwd" /\ last.part.a = "admin" /\ last.part.b = ""
    /\ ubs[last.b].user = "" /\ ubs[last.b].password = "secret"

\* the port of a Host input as a number
PortNumber(h) == DigitsValue(PortText(h), 0)

\* a Host input of the form <host>:<port>, no scheme, a positive decimal port
BareHostPort(h) ==
    /\ SchemeText(h) = "" /\ PathText(h) = ""
    /\ HostName(h) # "" /\ AllDigits(PortText(h)) /\ PortText(h) # "" /\ PortNumber(h) > 0

\* C19: after Host with a bare <host>:<port> (and no Host, Sch or Port since)
\* the builder holds that host and that port, and the built URL has the
\* scheme asked for before, the host, and ":<port>" unless the port is the
\* conventional one of the scheme.
C19_BareHostPort ==
    \A b \in Builders :
        (Rendered(b) /\ out[b].raw # "" /\ BareHostPort(conf[b].hostIn))
        => /\ ubs[b].host = HostName(conf[b].hostIn)
           /\ ubs[b].port = PortNumber(conf[b].hostIn)
           /\ SchemeText(out[b].raw) = SchemeAsked(b)
           /\ HostName(out[b].raw) = HostName(conf[b].hostIn)
           /\ PortText(out[b].raw) =
                 IF /\ SchemeAsked(b) \in {"http", "https"}
                    /\ PortNumber(conf[b].hostIn) = ConventionalPort(SchemeAsked(b))
                 THEN "" ELSE Itoa(PortNumber(conf[b].hostIn))

C19_Witness ==
    /\ Rendered(1) /\ conf[1].hostIn = "h.io:443" /\ conf[1].scheme = "HTTP"
    /\ out[1].raw = "http://h.io:443"

C21_HostPathLeads ==
    \A b \in Builders :
        (Rendered(b) /\ out[b].raw # "" /\ UrlShaped(conf[b].hostIn))
        => HasPrefix(PathText(out[b].raw) \o "/",
                     "/" \o Clean(PathText(conf[b].hostIn)) \o "/")

\* C22: a port that was never set is not rendered: when no Port and no Host
\* call gave builder b a port, the built URL has no ":0" after the host,
\* whatever the scheme is.
C22_UnsetPortNotWritten ==
    \A b \in Builders :
        (Rendered(b) /\ out[b].raw # "" /\ conf[b].port = 0)
        => PortText(out[b].raw) # "0"

====
